---- MODULE Spec2Model ----
(***************************************************************************)
(* Model of streamlit_app.py (FIRE Tax + FI Planner 2025).                 *)
(*                                                                         *)
(* Money is in whole dollars.  A tax rate is a whole number of 1/RateDen,  *)
(* so that every rate of the two bracket tables is exact (0.0575 = 23/400) *)
(* and a tax amount is a whole number of 1/RateDen dollars.                *)
(***************************************************************************)
EXTENDS Integers, Sequences, FiniteSets, TLC

VARIABLES
    \* -- calculate_tax applied to drawn inputs (TaxSpec) --
    brackets, income_x, income_y, tax_x, tax_y, tpc,
    \* -- sidebar inputs --
    gross_salary, pension_percent, annual_expenses, current_investments,
    expected_return, retirement_age, contributions,
    \* -- the "Run FIRE Simulation" handler --
    pc, pension_contribution, agi, va_529_deduction, taxable_income,
    federal_tax, state_tax, total_tax, effective_tax_rate, after_tax_income,
    total_savings, savings_rate, post_tax_savings, disposable_income,
    baseline_total_tax, baseline_after_tax_income,
    invest_value, annual_contrib, years, balances, milestones, year

tvars == <<brackets, income_x, income_y, tax_x, tax_y, tpc>>

inputs == <<gross_salary, pension_percent, annual_expenses, current_investments,
            expected_return, retirement_age, contributions>>

summary == <<pension_contribution, agi, va_529_deduction, taxable_income,
             federal_tax, state_tax, total_tax, effective_tax_rate,
             after_tax_income, total_savings, savings_rate, post_tax_savings,
             disposable_income>>

baseline == <<baseline_total_tax, baseline_after_tax_income>>

projection == <<invest_value, annual_contrib, years, balances, milestones, year>>

vars == <<tvars, inputs, pc, summary, baseline, projection>>

Min(a, b) == IF a <= b THEN a ELSE b
Max(a, b) == IF a >= b THEN a ELSE b

RateDen == 400

\* (limit, rate) pairs; rate in 1/RateDen
FEDERAL_BRACKETS_2025 ==
    << <<0, 40>>, <<11925, 48>>, <<48475, 88>>, <<103350, 96>>,
       <<197300, 128>>, <<250525, 140>>, <<626350, 148>> >>

VIRGINIA_BRACKETS_2025 ==
    << <<0, 8>>, <<3000, 12>>, <<5000, 20>>, <<17000, 23>> >>

STANDARD_DEDUCTION_2025 == 15000

\* The for loop of calculate_tax from bracket i on, with the values tax and
\* previous_limit have on entry to that iteration.
RECURSIVE calculate_tax_loop(_, _, _, _, _)
calculate_tax_loop(income, brs, i, tax, previous_limit) ==
    IF i > Len(brs) THEN tax
    ELSE IF income > previous_limit
         THEN calculate_tax_loop(income, brs, i + 1,
                  tax + (Min(income, brs[i][1]) - previous_limit) * brs[i][2],
                  brs[i][1])
         ELSE tax

\* A version that taxes the whole amount below each limit instead of the part
\* above the previous limit.
RECURSIVE calculate_tax_loop_whole(_, _, _, _, _)
calculate_tax_loop_whole(income, brs, i, tax, previous_limit) ==
    IF i > Len(brs) THEN tax
    ELSE IF income > previous_limit
         THEN calculate_tax_loop_whole(income, brs, i + 1,
                  tax + Min(income, brs[i][1]) * brs[i][2],
                  brs[i][1])
         ELSE tax

calculate_tax_whole(income, brs) ==
    Max(calculate_tax_loop_whole(income, brs, 1, 0, 0), 0)

calculate_tax(income, brs) ==
    Max(calculate_tax_loop(income, brs, 1, 0, 0), 0)

----------------------------------------------------------------------------
(* Exact arithmetic for the projected balance.                             *)
(*                                                                         *)
(* expected_return is a whole percentage divided by 100, so the balance    *)
(* after y years is a whole number of 1/100^y dollars.  That number        *)
(* outgrows a machine integer, so it is kept as its base-100 digits, least *)
(* significant first; multiplying by 100 is then a shift by one digit.     *)

Base == 100

RECURSIVE Big(_)
Big(n) == IF n = 0 THEN <<>> ELSE <<n % Base>> \o Big(n \div Base)

RECURSIVE BigMulCarry(_, _, _, _)
BigMulCarry(a, k, i, carry) ==
    IF i > Len(a) THEN Big(carry)
    ELSE LET v == a[i] * k + carry
         IN  <<v % Base>> \o BigMulCarry(a, k, i + 1, v \div Base)

\* a * k for a machine integer k >= 0
BigMul(a, k) == IF k = 0 THEN <<>> ELSE BigMulCarry(a, k, 1, 0)

RECURSIVE BigMulPow(_, _, _)
BigMulPow(a, k, n) == IF n = 0 THEN a ELSE BigMulPow(BigMul(a, k), k, n - 1)

Digit(a, i) == IF i <= Len(a) THEN a[i] ELSE 0

RECURSIVE BigAddCarry(_, _, _, _)
BigAddCarry(a, b, i, carry) ==
    IF i > Len(a) /\ i > Len(b) THEN Big(carry)
    ELSE LET v == Digit(a, i) + Digit(b, i) + carry
         IN  <<v % Base>> \o BigAddCarry(a, b, i + 1, v \div Base)

BigAdd(a, b) == BigAddCarry(a, b, 1, 0)

\* a * 100^n
BigShift(a, n) == IF a = <<>> THEN <<>> ELSE [i \in 1..n |-> 0] \o a

RECURSIVE BigGeqFrom(_, _, _)
BigGeqFrom(a, b, i) ==
    IF i = 0 THEN TRUE
    ELSE IF Digit(a, i) # Digit(b, i) THEN Digit(a, i) > Digit(b, i)
    ELSE BigGeqFrom(a, b, i - 1)

\* a >= b
BigGeq(a, b) == BigGeqFrom(a, b, Max(Len(a), Len(b)))

----------------------------------------------------------------------------
(* Sidebar inputs *)

\* a version of the list that also holds a Roth account
agi_reducing_accounts_roth ==
    << "403(b) Traditional", "457(b) Traditional",
       "401(a) Employee", "Solo 401(k) Employee",
       "SEP IRA", "SIMPLE IRA", "Traditional IRA",
       "HSA", "FSA", "Roth IRA" >>

agi_reducing_accounts ==
    << "403(b) Traditional", "457(b) Traditional",
       "401(a) Employee", "Solo 401(k) Employee",
       "SEP IRA", "SIMPLE IRA", "Traditional IRA",
       "HSA", "FSA" >>

account_types ==
    { "403(b) Traditional", "403(b) Roth", "457(b) Traditional", "457(b) Roth",
      "401(a) Employee", "401(a) Employer", "Solo 401(k) Employee",
      "Solo 401(k) Employer", "SEP IRA", "SIMPLE IRA", "Traditional IRA",
      "Roth IRA", "HSA", "FSA", "529 Plan", "ESA", "Taxable Brokerage Account" }

\* contributions.get(account, 0)
Get(contribs, account) ==
    IF account \in DOMAIN contribs THEN contribs[account] ELSE 0

\* sum(contributions.values())
RECURSIVE SumValues(_, _)
SumValues(contribs, accounts) ==
    IF accounts = {} THEN 0
    ELSE LET a == CHOOSE a \in accounts : TRUE
         IN  contribs[a] + SumValues(contribs, accounts \ {a})

\* the contribution entered for every ticked account, in units of the
\* input's step (500)
MaxAll == 1

GrossSalaries == { 0, 100000 }
PensionPercents == { 0, 5 }
AnnualExpenses == { 4800, 40000 }
CurrentInvestments == { 50000, 1500000 }
ExpectedReturns == { 0, 5 }
RetirementAges == { 0, 10 }
ContributionSets ==
    { [a \in {} |-> 0],
      [a \in {"Roth IRA"} |-> 10000],
      ("403(b) Traditional" :> 6000) @@ ("529 Plan" :> 6000) @@ ("ESA" :> 500),
      ("HSA" :> 4000) @@ ("529 Plan" :> 4000) @@ ("401(a) Employer" :> 2000) }
    \cup { [a \in account_types |-> 500 * k] : k \in 1..MaxAll }

False == [mark |-> "False", n |-> 0]
AlreadyAchieved == [mark |-> "Already Achieved", n |-> 0]
Years(y) == [mark |-> "years", n |-> y]

MilestoneNames ==
    { "Coast FI", "Barista FI", "Lean FI (75% Expenses)",
      "Full FI (100% Expenses)", "Fat FI (150% Expenses)" }

NoRate == [num |-> 0, den |-> 1, fault |-> FALSE]

\* the values nothing has been computed into yet
AppIdle ==
    /\ pc = "idle"
    /\ pension_contribution = 0 /\ agi = 0 /\ va_529_deduction = 0
    /\ taxable_income = 0 /\ federal_tax = 0 /\ state_tax = 0 /\ total_tax = 0
    /\ effective_tax_rate = NoRate /\ after_tax_income = 0
    /\ total_savings = 0 /\ savings_rate = NoRate
    /\ post_tax_savings = 0 /\ disposable_income = 0
    /\ baseline_total_tax = 0 /\ baseline_after_tax_income = 0
    /\ invest_value = <<>> /\ annual_contrib = 0
    /\ years = <<>> /\ balances = <<>>
    /\ milestones = [m \in MilestoneNames |-> False]
    /\ year = 0

Init ==
    /\ AppIdle
    /\ gross_salary \in GrossSalaries
    /\ pension_percent \in PensionPercents
    /\ annual_expenses \in AnnualExpenses
    /\ current_investments \in CurrentInvestments
    /\ expected_return \in ExpectedReturns
    /\ retirement_age \in RetirementAges
    /\ contributions \in ContributionSets
    /\ brackets = <<>> /\ income_x = 0 /\ income_y = 0
    /\ tax_x = 0 /\ tax_y = 0 /\ tpc = "off"

----------------------------------------------------------------------------
(* The "Run FIRE Simulation" handler *)

\* a / b; a division by zero raises ZeroDivisionError
Divide(a, b) ==
    IF b = 0 THEN [num |-> 0, den |-> 0, fault |-> TRUE]
    ELSE [num |-> a, den |-> b, fault |-> FALSE]

\* a version that divides whatever the salary is
RateUnguarded(amount, salary) == Divide(amount, salary)

\* amount / gross_salary if gross_salary > 0 else 0
Rate(amount, salary) == IF salary > 0 THEN Divide(amount, salary) ELSE NoRate

\* for account in agi_reducing_accounts: agi -= contributions.get(account, 0)
RECURSIVE ReduceAgi(_, _, _)
ReduceAgi(a, contribs, accounts) ==
    IF accounts = <<>> THEN a
    ELSE ReduceAgi(a - Get(contribs, Head(accounts)), contribs, Tail(accounts))

\* Lines 82-118.  gross_salary * pension_percent with pension_percent the
\* slider's value / 100; the salaries drawn are multiples of 100, for which
\* the product is a whole number of dollars.  Amounts that involve a tax are
\* in 1/RateDen dollars.
ComputeTaxes ==
    /\ pc = "idle"
    /\ LET pension == (gross_salary * pension_percent) \div 100
           agi1 == ReduceAgi(gross_salary - pension, contributions, agi_reducing_accounts)
           va529 == Min(Get(contributions, "529 Plan"), 4000)
           agi2 == agi1 - va529
           taxable == Max(agi2 - STANDARD_DEDUCTION_2025, 0)
           fed == calculate_tax(taxable, FEDERAL_BRACKETS_2025)
           state == calculate_tax(taxable, VIRGINIA_BRACKETS_2025)
           total == fed + state
           etr == Rate(total, gross_salary * RateDen)
           after_tax == (gross_salary - pension) * RateDen - total
           savings == SumValues(contributions, DOMAIN contributions)
           srate == Rate(savings, gross_salary)
           post_tax == savings
                       - (ReduceAgi(0, contributions, agi_reducing_accounts) * (-1))
                       - va529
       IN  /\ pension_contribution' = pension
           /\ agi' = agi2
           /\ va_529_deduction' = va529
           /\ taxable_income' = taxable
           /\ federal_tax' = fed
           /\ state_tax' = state
           /\ total_tax' = total
           /\ effective_tax_rate' = etr
           /\ after_tax_income' = after_tax
           /\ total_savings' = savings
           /\ savings_rate' = srate
           /\ post_tax_savings' = post_tax
           /\ disposable_income' = after_tax - post_tax * RateDen
           /\ pc' = IF etr.fault \/ srate.fault THEN "failed" ELSE "impact"
    /\ UNCHANGED <<tvars, inputs, baseline, projection>>

\* Lines 168-172
ContributionImpact ==
    /\ pc = "impact"
    /\ LET baseline_taxable_income == gross_salary - STANDARD_DEDUCTION_2025
           total == calculate_tax(baseline_taxable_income, FEDERAL_BRACKETS_2025)
                    + calculate_tax(baseline_taxable_income, VIRGINIA_BRACKETS_2025)
       IN  /\ baseline_total_tax' = total
           /\ baseline_after_tax_income' = gross_salary * RateDen - total
    /\ pc' = "setup"
    /\ UNCHANGED <<tvars, inputs, summary, projection>>

\* Lines 186-197
ProjectionSetup ==
    /\ pc = "setup"
    /\ invest_value' = Big(current_investments)
    /\ annual_contrib' = total_savings
    /\ years' = <<>>
    /\ balances' = <<>>
    /\ milestones' = [m \in MilestoneNames |-> False]
    /\ year' = 0
    /\ pc' = "loop"
    /\ UNCHANGED <<tvars, inputs, summary, baseline>>

current_age == 0
years_to_retirement == retirement_age - current_age
full_fi_target == annual_expenses * 25

\* a version with 1.75 for 0.75 in the Lean FI target
TargetTypo(m) ==
    CASE m = "Barista FI" -> [num |-> annual_expenses * 25, den |-> 2]
      [] m = "Lean FI (75% Expenses)" -> [num |-> annual_expenses * 175, den |-> 4]
      [] m = "Full FI (100% Expenses)" -> [num |-> annual_expenses * 25, den |-> 1]
      [] m = "Fat FI (150% Expenses)" -> [num |-> annual_expenses * 75, den |-> 2]

\* (annual_expenses * 0.5) * 25, (annual_expenses * 0.75) * 25,
\* annual_expenses * 25 and (annual_expenses * 1.5) * 25, as fractions
Target(m) ==
    CASE m = "Barista FI" -> [num |-> annual_expenses * 25, den |-> 2]
      [] m = "Lean FI (75% Expenses)" -> [num |-> annual_expenses * 75, den |-> 4]
      [] m = "Full FI (100% Expenses)" -> [num |-> annual_expenses * 25, den |-> 1]
      [] m = "Fat FI (150% Expenses)" -> [num |-> annual_expenses * 75, den |-> 2]

\* value / 100^y >= Target(m), for a balance value in 1/100^y dollars
Reaches(value, y, m) ==
    BigGeq(BigMul(value, Target(m).den), BigShift(Big(Target(m).num), y))

\* value / 100^y >= coast_fi_target, where coast_fi_target is
\* full_fi_target / ((1 + expected_return) ** years_to_retirement)
ReachesCoast(value, y) ==
    BigGeq(BigMulPow(value, 100 + expected_return, years_to_retirement),
           BigShift(Big(full_fi_target), years_to_retirement + y))

ReachesTarget(value, y, m) ==
    IF m = "Coast FI" THEN ReachesCoast(value, y) ELSE Reaches(value, y, m)

\* a version that adds the contribution before the growth
GrowAfterContribution(value, y) ==
    BigMul(BigAdd(value, BigShift(Big(annual_contrib), y - 1)), 100 + expected_return)

\* invest_value * (1 + expected_return) + annual_contrib, from a balance in
\* 1/100^(y-1) dollars to one in 1/100^y dollars
Grow(value, y) ==
    BigAdd(BigMul(value, 100 + expected_return), BigShift(Big(annual_contrib), y))

\* lines 213-216 and 219-222
MarkFirstYear(y, reached) ==
    IF y = 1 /\ reached THEN AlreadyAchieved ELSE Years(y)

\* f"{year} years" if year > 0 else "Already Achieved"
MarkYears(y) == IF y > 0 THEN Years(y) ELSE AlreadyAchieved

\* a version without the "not milestones[...]" test
RecordAlways(old, reached, new) == IF reached THEN new ELSE old

\* if not milestones[m] and invest_value >= target: milestones[m] = new
Record(old, reached, new) == IF old = False /\ reached THEN new ELSE old

LastYear == 50

\* One iteration of "for year in range(1, 51)", lines 207-231
ProjectYear ==
    /\ pc = "loop"
    /\ year < LastYear
    /\ LET y == year + 1
           value == Grow(invest_value, y)
           reached == [m \in MilestoneNames |-> ReachesTarget(value, y, m)]
       IN  /\ invest_value' = value
           /\ balances' = Append(balances, value)
           /\ years' = Append(years, y)
           /\ year' = y
           /\ milestones' =
                [m \in MilestoneNames |->
                    Record(milestones[m], reached[m],
                           IF m \in {"Coast FI", "Barista FI"}
                           THEN MarkFirstYear(y, reached[m])
                           ELSE MarkYears(y))]
    /\ pc' = "loop"
    /\ UNCHANGED <<tvars, inputs, summary, baseline, annual_contrib>>

\* the loop is over: lines 233-234
ShowMilestones ==
    /\ pc = "loop"
    /\ year = LastYear
    /\ pc' = "done"
    /\ UNCHANGED <<tvars, inputs, summary, baseline, projection>>

Next == ComputeTaxes \/ ContributionImpact \/ ProjectionSetup \/ ProjectYear \/ ShowMilestones

Spec == Init /\ [][Next]_vars

\* The script runs to its end once started: weak fairness of Next.  A step of
\* Next is possible exactly when pc is neither "done" nor "failed", so
\* WF_vars(Next) is written with that state predicate for ~ENABLED <<Next>>_vars.
FairSpec == Spec /\ ([]<>(pc \in {"done", "failed"}) \/ []<><<Next>>_vars)

----------------------------------------------------------------------------
(* calculate_tax on drawn inputs *)

\* how far around each bracket bound the drawn incomes go
Radius == 2

\* the two tables of the program and one more valid table whose rates are
\* not increasing
BracketTables ==
    { FEDERAL_BRACKETS_2025, VIRGINIA_BRACKETS_2025,
      << <<0, 120>>, <<10, 40>>, <<25, 0>>, <<40, 200>> >> }

Bounds(brs) == { brs[i][1] : i \in 1..Len(brs) }

TaxableIncomes ==
    { x \in UNION { (b - Radius)..(b + Radius) :
                      b \in UNION { Bounds(brs) : brs \in BracketTables } } : x >= 0 }
    \cup { 700000, 1000000 }

TaxInit ==
    /\ AppIdle
    /\ gross_salary = 0 /\ pension_percent = 0 /\ annual_expenses = 0
    /\ current_investments = 0 /\ expected_return = 0 /\ retirement_age = 0
    /\ contributions = [a \in {} |-> 0]
    /\ brackets \in BracketTables
    /\ income_x \in TaxableIncomes
    /\ income_y \in { y \in TaxableIncomes : y >= income_x }
    /\ tax_x = 0
    /\ tax_y = 0
    /\ tpc = "x"

TaxCallX ==
    /\ tpc = "x"
    /\ tax_x' = calculate_tax(income_x, brackets)
    /\ tpc' = "y"
    /\ UNCHANGED <<brackets, income_x, income_y, tax_y, inputs, pc, summary, baseline, projection>>

TaxCallY ==
    /\ tpc = "y"
    /\ tax_y' = calculate_tax(income_y, brackets)
    /\ tpc' = "done"
    /\ UNCHANGED <<brackets, income_x, income_y, tax_x, inputs, pc, summary, baseline, projection>>

TaxNext == TaxCallX \/ TaxCallY

TaxSpec == TaxInit /\ [][TaxNext]_vars

----------------------------------------------------------------------------
(* Properties of calculate_tax (TaxSpec) *)

\* sum over the brackets i with x > L_i of (min(x, L_{i+1}) - L_i) * r_i,
\* L_{i+1} being infinite for the last bracket
RECURSIVE MarginalSum(_, _, _)
MarginalSum(x, brs, i) ==
    IF i > Len(brs) THEN 0
    ELSE (IF x > brs[i][1]
          THEN ((IF i < Len(brs) THEN Min(x, brs[i + 1][1]) ELSE x) - brs[i][1]) * brs[i][2]
          ELSE 0)
         + MarginalSum(x, brs, i + 1)

\* the bracket x lies in: lower bound inclusive, next bound exclusive
BracketIndex(x, brs) ==
    CHOOSE i \in 1..Len(brs) :
        brs[i][1] <= x /\ (i = Len(brs) \/ x < brs[i + 1][1])

MaxRate(brs) ==
    CHOOSE r \in { brs[i][2] : i \in 1..Len(brs) } :
        \A i \in 1..Len(brs) : brs[i][2] <= r

\* C1: calculate_tax(x, brackets) is the standard marginal sum of the table
\* read as (lower bound, rate) pairs.
C1_MarginalSum ==
    tpc = "done" =>
        /\ tax_x = MarginalSum(income_x, brackets, 1)
        /\ tax_y = MarginalSum(income_y, brackets, 1)

\* C4: when x and x + e lie in the same bracket, the tax on x + e exceeds
\* the tax on x by exactly e times that bracket's rate.
C4_MarginalRate ==
    (tpc = "done" /\ income_x < income_y
       /\ BracketIndex(income_x, brackets) = BracketIndex(income_y, brackets))
    => tax_y - tax_x
         = (income_y - income_x) * brackets[BracketIndex(income_x, brackets)][2]

\* C5: calculate_tax is non-decreasing in the income, is 0 at income 0, and
\* has no jump: between two incomes it rises by no more than their distance
\* times the largest rate of the table.
C5_NonDecreasing ==
    tpc = "done" =>
        /\ tax_x <= tax_y
        /\ tax_y - tax_x <= (income_y - income_x) * MaxRate(brackets)
        /\ (income_x = 0 => tax_x = 0)
        /\ (income_y = 0 => tax_y = 0)

\* the two incomes lie on either side of a bracket bound and the tax rose
C5_Witness ==
    /\ tpc = "done"
    /\ \E b \in Bounds(brackets) : b > 0 /\ income_x < b /\ b < income_y
    /\ tax_x < tax_y

----------------------------------------------------------------------------
(* Properties of the handler (Spec) *)

\* the opening balance, before any growth or contribution, meets the target
OpeningReaches(m) == ReachesTarget(Big(current_investments), 0, m)

\* C2: when the opening balance meets every target, every milestone is
\* recorded in year 1 with the "already achieved" marker and none with
\* "1 years".
C2_AllAlreadyAchieved ==
    (year >= 1 /\ \A m \in MilestoneNames : OpeningReaches(m))
    => \A m \in MilestoneNames : milestones[m] = AlreadyAchieved

\* C10: a milestone carries the "already achieved" marker only when the
\* opening balance meets its target.
C10_MarkerOnlyForOpening ==
    \A m \in MilestoneNames :
        milestones[m] = AlreadyAchieved => OpeningReaches(m)

\* the years whose post-update balance meets the target of m
CrossingYears(m) ==
    { y \in 1..Len(balances) : ReachesTarget(balances[y], y, m) }

Least(S) == CHOOSE y \in S : \A z \in S : y <= z

\* the loop year a record was written in: the marker is written in year 1
RecordedYear(rec) == IF rec = AlreadyAchieved THEN 1 ELSE rec.n

C3_Start == (pc = "loop" /\ year = 0) => \A m \in MilestoneNames : milestones[m] = False

C3_Step ==
    \A m \in MilestoneNames :
        /\ milestones[m] # False => milestones'[m] = milestones[m]
        /\ (milestones[m] = False /\ pc = "loop" /\ pc' = "loop") =>
              IF ReachesTarget(balances'[year'], year', m)
              THEN milestones'[m] # False /\ RecordedYear(milestones'[m]) = year'
              ELSE milestones'[m] = False

C3_End ==
    pc = "done" =>
        \A m \in MilestoneNames :
            IF CrossingYears(m) = {} THEN milestones[m] = False
            ELSE /\ milestones[m] # False
                 /\ RecordedYear(milestones[m]) = Least(CrossingYears(m))

\* C3: every milestone starts unmet, is recorded in the first year whose
\* post-update balance meets its target, is never changed once recorded, and
\* is still unmet after the loop when no balance met its target.
C3_FirstCrossing == [](C3_Start /\ C3_End) /\ [][C3_Step]_vars

\* after the loop one milestone was recorded in a later year than the first
\* and another is still unmet
C3_Witness ==
    /\ pc = "done"
    /\ \E m \in MilestoneNames : milestones[m].mark = "years" /\ milestones[m].n > 1
    /\ \E m \in MilestoneNames : milestones[m] = False

Ordered(a, b) ==
    milestones[b] # False =>
        /\ milestones[a] # False
        /\ RecordedYear(milestones[a]) <= RecordedYear(milestones[b])

\* C6: the years recorded for Barista, Lean, Full and Fat are non-decreasing
\* in that order, and a larger target is never recorded while a smaller one
\* is unmet.
C6_MilestoneOrdering ==
    /\ Ordered("Barista FI", "Lean FI (75% Expenses)")
    /\ Ordered("Lean FI (75% Expenses)", "Full FI (100% Expenses)")
    /\ Ordered("Full FI (100% Expenses)", "Fat FI (150% Expenses)")

\* the four milestones were recorded in four different years
C6_Witness ==
    /\ pc = "done"
    /\ milestones["Barista FI"].mark = "years"
    /\ milestones["Fat FI (150% Expenses)"].mark = "years"
    /\ milestones["Barista FI"].n < milestones["Lean FI (75% Expenses)"].n
    /\ milestones["Lean FI (75% Expenses)"].n < milestones["Full FI (100% Expenses)"].n
    /\ milestones["Full FI (100% Expenses)"].n < milestones["Fat FI (150% Expenses)"].n

NineCategories ==
    { "403(b) Traditional", "457(b) Traditional", "401(a) Employee",
      "Solo 401(k) Employee", "SEP IRA", "SIMPLE IRA", "Traditional IRA",
      "HSA", "FSA" }

RECURSIVE SumOver(_, _)
SumOver(contribs, S) ==
    IF S = {} THEN 0
    ELSE LET a == CHOOSE a \in S : TRUE
         IN  contribs[a] + SumOver(contribs, S \ {a})

\* C7: AGI is the salary less the pension contribution, the contributions
\* of the nine AGI-reducing categories and min(529 contribution, 4000); the
\* taxable income is max(AGI - 15000, 0) and never negative.
C7_DerivedTaxInputs ==
    pc # "idle" =>
        /\ pension_contribution * 100 = gross_salary * pension_percent
        /\ agi = gross_salary - pension_contribution
                 - SumOver(contributions, NineCategories \cap DOMAIN contributions)
                 - (IF "529 Plan" \in DOMAIN contributions
                    THEN Min(contributions["529 Plan"], 4000) ELSE 0)
        /\ taxable_income = (IF agi - 15000 > 0 THEN agi - 15000 ELSE 0)
        /\ taxable_income >= 0

\* a run with a pension, an AGI-reducing contribution, a 529 contribution
\* above the cap and a contribution that leaves the AGI alone
C7_Witness ==
    /\ pc = "done"
    /\ pension_contribution > 0
    /\ taxable_income > 0
    /\ \E a \in NineCategories \cap DOMAIN contributions : contributions[a] > 0
    /\ Get(contributions, "529 Plan") > 4000
    /\ \E a \in DOMAIN contributions :
          a \notin NineCategories /\ a # "529 Plan" /\ contributions[a] > 0

C8_End ==
    pc = "done" =>
        /\ Len(balances) = 50
        /\ years = [i \in 1..50 |-> i]
        /\ \A y \in 1..50 :
              balances[y] =
                BigAdd(BigMul(IF y = 1 THEN Big(current_investments) ELSE balances[y - 1],
                              100 + expected_return),
                       BigShift(Big(total_savings), y))
        /\ (current_investments = 50000 /\ total_savings = 10000 /\ expected_return = 5) =>
              /\ balances[1] = Big(62500 * 100)
              /\ annual_expenses = 40000 =>
                    /\ milestones["Full FI (100% Expenses)"] = Years(33)
                    /\ ReachesTarget(balances[33], 33, "Full FI (100% Expenses)")
                    /\ ~ReachesTarget(balances[32], 32, "Full FI (100% Expenses)")

\* C8: the loop ends, with exactly the 50 points of years 1..50, each balance
\* the previous one times (1 + growth) plus the contribution; from 50000 with
\* 10000 a year at 5% the first balance is 62500 and, with expenses of 40000,
\* Full FI is recorded in the first year whose balance reaches 1,000,000.
C8_Projection == <>(pc = "done") /\ []C8_End

C8_Witness ==
    /\ pc = "done"
    /\ current_investments = 50000 /\ total_savings = 10000
    /\ expected_return = 5 /\ annual_expenses = 40000
    /\ milestones["Full FI (100% Expenses)"] = Years(33)

\* C9: with a gross salary of 0 the run goes through without a division
\* fault and both rates are 0; with a positive salary they are
\* total_tax / gross_salary and total_savings / gross_salary.
C9_Rates ==
    pc # "idle" =>
        /\ pc # "failed"
        /\ ~effective_tax_rate.fault /\ ~savings_rate.fault
        /\ gross_salary = 0 => (effective_tax_rate.num = 0 /\ savings_rate.num = 0)
        /\ gross_salary > 0 =>
              /\ effective_tax_rate.num = total_tax
              /\ effective_tax_rate.den = gross_salary * RateDen
              /\ savings_rate.num = total_savings
              /\ savings_rate.den = gross_salary

\* a finished run with no salary and some contributions
C9_Witness ==
    /\ pc = "done"
    /\ gross_salary = 0
    /\ total_savings > 0

====
